---- MODULE Spec2Model ----
(***************************************************************************)
(* The domain selector of addons/web (core/domain_selector):               *)
(* DomainSelector.onPropsUpdated rebuilds the editable tree from the       *)
(* serialized domain, the mutation handlers edit it in place and notify    *)
(* the owner with the re-serialized expression.                            *)
(*                                                                         *)
(* domain_selector.js is modelled from its code.  The collaborators it     *)
(* imports (Domain, DomainTreeBuilder, BranchDomainNode, the operator and  *)
(* field registries) are modelled from their specification.                *)
(***************************************************************************)
EXTENDS Integers, Sequences, FiniteSets, TLC

(***************************************************************************)
(* Bounds of the model.                                                    *)
(***************************************************************************)
\* Node objects ever constructed (the module-level id counter stops here).
MaxId == 14
\* onPropsUpdated invocations that may be awaiting lookups at the same time.
MaxCalls == 2
\* onPropsUpdated invocations in a run with at most one mutation.
MaxProps == 2
\* Mutation handler invocations in a run with one onPropsUpdated invocation.
MaxEdits == 2

(***************************************************************************)
(* Values of a leaf.  A JavaScript value is a scalar (one atom) or a list   *)
(* of atoms; `undefined` and `false` are atoms.                            *)
(***************************************************************************)
Scalar(a) == [k |-> "scalar", s |-> <<a>>]

List(s) == [k |-> "list", s |-> s]

Undefined == Scalar("undefined")

False == Scalar("false")

\* The placeholder of a branch's unused value slot.
NoValue == [k |-> "none", s |-> <<>>]

\* JavaScript `value[0]`: the first element of a list, undefined for an empty
\* list and for a number, a boolean or an empty string.
Index0(v) == IF v.k = "list" /\ Len(v.s) > 0 THEN Scalar(v.s[1]) ELSE Undefined

\* JavaScript `[value]` for a scalar value.
Wrap(v) == IF v.k = "scalar" THEN List(v.s) ELSE List(<<"<list>">>)

(***************************************************************************)
(* Field paths: the first element of a leaf triple, a string or a number.  *)
(***************************************************************************)
Str(s) == [isString |-> TRUE, text |-> s]

Num(s) == [isString |-> FALSE, text |-> s]

\* The field paths of the modelled expressions and of updateField's input.
Paths == {Str("id"), Str("name"), Str("bogus"), Str("crash"), Str(""), Num("1"), Num("2")}

(***************************************************************************)
(* The field service (fieldService.loadPath), for the one resModel of the  *)
(* model: "id" and "name" resolve, "bogus" is reported invalid, the lookup *)
(* of "crash" rejects.                                                     *)
(***************************************************************************)
LoadPath(text) ==
    CASE text = "id" -> [status |-> "ok", type |-> "integer"]
      [] text = "name" -> [status |-> "ok", type |-> "char"]
      [] text = "crash" -> [status |-> "rejected", type |-> ""]
      [] OTHER -> [status |-> "invalid", type |-> ""]

\* A field definition as loadFieldDef returns it; null is NullDef.
Def(type) == [type |-> type]

NullDef == Def("null")

\* `"01".includes(field.toString())`: the substrings of "01".
IsZeroOne(path) == path.text \in {"", "0", "1", "01"}

\* loadFieldDef answers without the field service.
Immediate(path) == IsZeroOne(path) \/ ~path.isString \/ path.text = ""

\* loadFieldDef's answer where it needs no lookup.
ImmediateDef(path) == IF IsZeroOne(path) THEN Def("integer") ELSE NullDef

\* loadFieldDef's answer once loadPath has answered (not rejected).
LoadedDef(path) ==
    IF LoadPath(path.text).status = "invalid" THEN NullDef
    ELSE Def(LoadPath(path.text).type)

\* loadFieldDef, for a lookup that does not reject.
loadFieldDef(path) == IF Immediate(path) THEN ImmediateDef(path) ELSE LoadedDef(path)

\* The lookup of this path rejects.
Rejects(path) == ~Immediate(path) /\ LoadPath(path.text).status = "rejected"

(***************************************************************************)
(* Operator registry and field registry.                                   *)
(***************************************************************************)
OpKeys == {"=", "!=", "in", "set"}

findOperator(key) ==
    [key |-> key,
     valueMode |-> CASE key = "in" -> "multiple"
                     [] key = "set" -> "none"
                     [] OTHER -> "single"]

\* getOperatorsInfo(fieldType) of the field registry, in registry order.
OperatorsOfType(type) ==
    IF type = "integer" THEN <<"=", "!=", "in", "set">>
    ELSE <<"=", "!=", "set">>

getDefaultFieldValue(field) ==
    IF field.type = "integer" THEN Scalar("1") ELSE Scalar("")

(***************************************************************************)
(* Nodes.  The heap maps object references (positions) to node objects;    *)
(* a node's `id` is the value the id counter had when it was constructed.  *)
(***************************************************************************)
NoField == [name |-> Str(""), type |-> ""]

BranchOp(op) == [key |-> op, valueMode |-> ""]

LeafNode(id, field, operator, value) ==
    [type |-> "leaf", id |-> id, operator |-> operator, children |-> <<>>,
     field |-> field, value |-> value]

BranchNode(id, op, children) ==
    [type |-> "branch", id |-> id, operator |-> BranchOp(op),
     children |-> children, field |-> NoField, value |-> NoValue]

\* An object nothing refers to any more; only its id is remembered.
Dropped(id) ==
    [type |-> "dropped", id |-> id, operator |-> BranchOp(""),
     children |-> <<>>, field |-> NoField, value |-> NoValue]

RECURSIVE Reach(_, _)
Reach(h, r) ==
    IF r = 0 THEN {}
    ELSE {r} \cup UNION {Reach(h, h[r].children[i]) : i \in 1..Len(h[r].children)}

\* The heap with every object unreachable from `roots` dropped.
Sweep(h, roots) ==
    LET live == UNION {Reach(h, r) : r \in roots}
    IN  [i \in 1..Len(h) |-> IF i \in live THEN h[i] ELSE Dropped(h[i].id)]

\* The structure of a subtree, ids left out.
RECURSIVE Shape(_, _)
Shape(h, r) ==
    [type |-> h[r].type, operator |-> h[r].operator.key,
     field |-> h[r].field.name, value |-> h[r].value,
     children |-> [i \in 1..Len(h[r].children) |-> Shape(h, h[r].children[i])]]

\* The leaves of a subtree from left to right, ids left out.
RECURSIVE Leaves(_, _)
RECURSIVE LeavesOf(_, _, _)
LeavesOf(h, kids, i) ==
    IF i > Len(kids) THEN <<>> ELSE Leaves(h, kids[i]) \o LeavesOf(h, kids, i + 1)

Leaves(h, r) ==
    IF h[r].type = "leaf"
    THEN <<[field |-> h[r].field.name, operator |-> h[r].operator.key,
            value |-> h[r].value]>>
    ELSE LeavesOf(h, h[r].children, 1)

(***************************************************************************)
(* The serialized expression: prefix notation, a sequence of connective    *)
(* tokens ("&", "|") and leaf triples.                                    *)
(***************************************************************************)
LeafTok(path, op, val) == [t |-> "leaf", path |-> path, op |-> op, val |-> val]

ConnTok(c) == [t |-> c, path |-> Str(""), op |-> "", val |-> NoValue]

\* Operands still missing after the tokens from i on, `need` missing before.
RECURSIVE Missing(_, _, _)
Missing(toks, i, need) ==
    IF i > Len(toks) THEN need
    ELSE IF need = 0 THEN -1
    ELSE Missing(toks, i + 1, IF toks[i].t = "leaf" THEN need - 1 ELSE need + 1)

\* new Domain(text) and toList() succeed: no token the parser rejects, and
\* the tokens reduce to exactly one expression (or there are none).
ParseOk(toks) ==
    /\ \A i \in 1..Len(toks) : toks[i].t \in {"leaf", "&", "|"}
    /\ toks = <<>> \/ Missing(toks, 1, 1) = 0

\* extractFieldsFromDomain without the test for the numbers 0 and 1.
extractStringFields(toks) ==
    LET l == SelectSeq(toks, LAMBDA tk : tk.t = "leaf" /\ tk.path.isString)
    IN  [i \in 1..Len(l) |-> l[i].path]

\* extractFieldsFromDomain: the first element of every top-level triple when
\* it is a string or the number 0 or 1.
RECURSIVE extractFieldsFromDomain(_)
extractFieldsFromDomain(toks) ==
    IF toks = <<>> THEN <<>>
    ELSE LET tk == Head(toks)
         IN  (IF tk.t = "leaf" /\ (tk.path.isString \/ tk.path.text \in {"0", "1"})
              THEN <<tk.path>> ELSE <<>>) \o extractFieldsFromDomain(Tail(toks))

(***************************************************************************)
(* DomainTreeBuilder.build and the nodes' toDomain().toString().           *)
(***************************************************************************)
\* The literal value of a triple fitted to the operator's valueMode.
Normalize(mode, v) ==
    IF mode = "multiple" /\ v.k = "scalar" THEN List(v.s)
    ELSE IF mode = "single" /\ v.k = "list" THEN Index0(v)
    ELSE v

\* The definition the mapping holds for a path (JavaScript object keys are
\* the paths' texts); a path without an entry is unresolved.
DefOf(defs, path) ==
    IF path.text \in DOMAIN defs THEN defs[path.text] ELSE NullDef

\* One token, read from the right: a triple makes a Leaf, a connective a
\* Branch of the two expressions to its right.  m = [ok, heap, nextId, stack].
BuildToken(tk, defs, m) ==
    IF tk.t = "leaf"
    THEN IF DefOf(defs, tk.path) = NullDef \/ tk.op \notin OpKeys
         THEN [m EXCEPT !.ok = FALSE]
         ELSE [ok |-> TRUE,
               heap |-> Append(m.heap,
                          LeafNode(m.nextId + 1,
                                   [name |-> tk.path, type |-> DefOf(defs, tk.path).type],
                                   findOperator(tk.op),
                                   Normalize(findOperator(tk.op).valueMode, tk.val))),
               nextId |-> m.nextId + 1,
               stack |-> <<Len(m.heap) + 1>> \o m.stack]
    ELSE IF Len(m.stack) < 2
         THEN [m EXCEPT !.ok = FALSE]
         ELSE [ok |-> TRUE,
               heap |-> Append(m.heap,
                          BranchNode(m.nextId + 1, IF tk.t = "&" THEN "AND" ELSE "OR",
                                     <<m.stack[1], m.stack[2]>>)),
               nextId |-> m.nextId + 1,
               stack |-> <<Len(m.heap) + 1>> \o SubSeq(m.stack, 3, Len(m.stack))]

RECURSIVE BuildScan(_, _, _, _)
BuildScan(toks, defs, i, m) ==
    IF i = 0 \/ ~m.ok THEN m
    ELSE BuildScan(toks, defs, i - 1, BuildToken(toks[i], defs, m))

\* treeBuilder.build(domain, fieldDefs) on heap h with id counter n:
\* [ok, heap, nextId, root]; ok = FALSE when the build throws.  The root is
\* always a Branch: the top connective, or an AND around the only leaf (or
\* around nothing).
Build(toks, defs, h, n) ==
    LET m == BuildScan(toks, defs, Len(toks),
                       [ok |-> TRUE, heap |-> h, nextId |-> n, stack |-> <<>>])
    IN  IF ~m.ok \/ Len(m.stack) > 1
        THEN [ok |-> FALSE, heap |-> h, nextId |-> n, root |-> 0]
        ELSE IF Len(m.stack) = 1 /\ m.heap[m.stack[1]].type = "branch"
        THEN [ok |-> TRUE, heap |-> m.heap, nextId |-> m.nextId, root |-> m.stack[1]]
        ELSE [ok |-> TRUE,
              heap |-> Append(m.heap, BranchNode(m.nextId + 1, "AND", m.stack)),
              nextId |-> m.nextId + 1,
              root |-> Len(m.heap) + 1]

\* node.toDomain().toString(): a Leaf is its triple; a Branch right-folds
\* its children under its connective; a Branch without children is empty.
RECURSIVE Ser(_, _)
RECURSIVE SerFold(_, _, _, _)
SerFold(h, c, kids, i) ==
    IF i > Len(kids) THEN <<>>
    ELSE LET first == Ser(h, kids[i])
             rest == SerFold(h, c, kids, i + 1)
         IN  IF first = <<>> THEN rest
             ELSE IF rest = <<>> THEN first
             ELSE <<ConnTok(c)>> \o first \o rest

Ser(h, r) ==
    IF h[r].type = "leaf"
    THEN <<LeafTok(h[r].field.name, h[r].operator.key, h[r].value)>>
    ELSE SerFold(h, IF h[r].operator.key = "AND" THEN "&" ELSE "|", h[r].children, 1)

\* The mapping loadFieldDefs returns once every lookup of `fields` is done.
AllDefs(fields) ==
    [t \in {fields[i].text : i \in 1..Len(fields)} |->
        loadFieldDef(CHOOSE p \in {fields[i] : i \in 1..Len(fields)} : p.text = t)]

(***************************************************************************)
(* The component.                                                          *)
(***************************************************************************)
VARIABLES
    heap,         \* the node objects, by reference
    nextId,       \* the id counter of the node classes
    tree,         \* this.tree: [isSupported, root]; root = 0 is null
    defaultLeaf,  \* this.defaultLeaf; 0 is undefined
    calls,        \* onPropsUpdated invocations awaiting field lookups
    updates,      \* updateField invocations awaiting their field lookup
    notified,     \* the last expression handed to props.update
    latest,       \* the props of the most recent onPropsUpdated call, and
                  \* whether a call of onPropsUpdated has completed
    left,         \* the handler invocations left to the run: [props, edits]
    ev            \* the handler step that led to this state

vars == <<heap, nextId, tree, defaultLeaf, calls, updates, notified, latest, left, ev>>

\* updateField invocations that may be awaiting their lookup at the same time.
MaxUpdates == 1

\* props.defaultLeafValue (static defaultProps).
DefaultLeafValue == LeafTok(Str("id"), "=", Scalar("1"))

\* The values of props.value the owner passes besides the expressions the
\* component itself emitted: the empty domain, an always-true shorthand, a
\* nested expression, a field the service reports invalid, a field whose
\* lookup rejects, a connective without its operands, a triple on the number
\* 2 and a triple on the empty string.
Exprs ==
    { <<>>,
      <<LeafTok(Num("1"), "=", Scalar("1"))>>,
      <<ConnTok("|"), LeafTok(Str("id"), "=", Scalar("10")),
        ConnTok("&"), LeafTok(Str("name"), "in", Scalar("a")),
                      LeafTok(Str("id"), "set", False)>>,
      <<LeafTok(Str("bogus"), "=", Scalar("1"))>>,
      <<LeafTok(Str("crash"), "=", Scalar("1"))>>,
      <<ConnTok("&"), LeafTok(Str("id"), "=", Scalar("10"))>>,
      <<LeafTok(Num("2"), "=", Scalar("1"))>>,
      <<LeafTok(Str(""), "=", Scalar("1"))>> }

\* The part of the state the synchronous code reads and writes.
Machine ==
    [heap |-> heap, nextId |-> nextId, tree |-> tree, defaultLeaf |-> defaultLeaf]

\* The catch block of onPropsUpdated.
Catch(m) ==
    LET b == Build(<<>>, <<>>, m.heap, m.nextId)
    IN  [m EXCEPT !.heap = b.heap, !.nextId = b.nextId,
                  !.tree = [isSupported |-> FALSE, root |-> b.root]]

\* loadFieldDefs(resModel, fields) up to its await: the lookups started and
\* the entries of those that need no field service.
loadFieldDefs(fields) ==
    LET set == {fields[i] : i \in 1..Len(fields)}
        now == {p \in set : Immediate(p)}
    IN  [pend |-> set \ now,
         defs |-> [t \in {p.text : p \in now} |->
                      ImmediateDef(CHOOSE p \in now : p.text = t)]]

\* A call of onPropsUpdated awaiting the lookups of its stage (1: the
\* expression's fields, 2: the default leaf's field).
Call(v, stage, fields) ==
    [value |-> v, stage |-> stage,
     pend |-> loadFieldDefs(fields).pend, defs |-> loadFieldDefs(fields).defs]

\* Lines 69-73, after the second await.
FinishCall(m, c) ==
    LET b == Build(<<DefaultLeafValue>>, c.defs, m.heap, m.nextId)
    IN  IF ~b.ok THEN Catch(m)
        ELSE [m EXCEPT !.heap = b.heap, !.nextId = b.nextId,
                       !.defaultLeaf = b.heap[b.root].children[1],
                       !.tree.isSupported = TRUE]

\* onPropsUpdated from the point where call c stands, as far as it runs
\* without waiting: [m: the state it leaves, calls: c if it waits again,
\* built: the mapping handed to the build of the expression, if it ran].
Resume(m, c) ==
    IF c.pend # {} THEN [m |-> m, calls |-> <<c>>, built |-> <<>>]
    ELSE IF c.stage = 2
    THEN [m |-> FinishCall(m, c), calls |-> <<>>, built |-> <<>>]
    ELSE LET b == Build(c.value, c.defs, m.heap, m.nextId)
             m1 == [m EXCEPT !.heap = b.heap, !.nextId = b.nextId,
                             !.tree.root = b.root]
             c2 == Call(c.value, 2, <<DefaultLeafValue.path>>)
         IN  IF ~b.ok THEN [m |-> Catch(m), calls |-> <<>>, built |-> <<c.defs>>]
             ELSE IF c2.pend # {} THEN [m |-> m1, calls |-> <<c2>>, built |-> <<c.defs>>]
             ELSE [m |-> FinishCall(m1, c2), calls |-> <<>>, built |-> <<c.defs>>]

\* The step record of a handler.
Ev(op) ==
    [op |-> op, done |-> TRUE, threw |-> FALSE, notes |-> 0, value |-> <<>>,
     parent |-> 0, node |-> 0, key |-> "", path |-> Str(""),
     old |-> Dropped(0), now |-> Dropped(0), oldChildren |-> <<>>,
     made |-> <<>>, built |-> <<>>]

\* The state a step leaves: what nothing refers to any more is dropped.
Commit(m, cs, us) ==
    /\ m.nextId <= MaxId
    /\ heap' = Sweep(m.heap, {m.tree.root, m.defaultLeaf}
                               \cup {us[i].node : i \in 1..Len(us)})
    /\ nextId' = m.nextId
    /\ tree' = m.tree
    /\ defaultLeaf' = m.defaultLeaf
    /\ calls' = cs
    /\ updates' = us

Init ==
    /\ heap = <<>>
    /\ nextId = 0
    /\ tree = [isSupported |-> FALSE, root |-> 0]
    /\ defaultLeaf = 0
    /\ calls = <<>>
    /\ updates = <<>>
    /\ notified = [sent |-> FALSE, expr |-> <<>>]
    /\ latest = [any |-> FALSE, value |-> <<>>, touched |-> FALSE, completed |-> FALSE]
    /\ left \in {[props |-> 1, edits |-> MaxEdits], [props |-> MaxProps, edits |-> 1]}
    /\ ev = Ev("setup")

\* onPropsUpdated(p), called by onWillStart and onWillUpdateProps, up to its
\* first await (or to its end).
OnPropsUpdated(v) ==
    /\ Len(calls) < MaxCalls
    /\ left.props > 0
    /\ left' = [left EXCEPT !.props = @ - 1]
    /\ LET r == IF ~ParseOk(v) THEN [m |-> Catch(Machine), calls |-> <<>>, built |-> <<>>]
                ELSE Resume(Machine, Call(v, 1, extractFieldsFromDomain(v)))
       IN  /\ Commit(r.m, calls \o r.calls, updates)
           /\ ev' = [Ev("onPropsUpdated") EXCEPT !.done = (r.calls = <<>>),
                                                 !.value = v, !.built = r.built]
           /\ latest' = [any |-> TRUE, value |-> v, touched |-> FALSE,
                         completed |-> latest.completed \/ r.calls = <<>>]
    /\ UNCHANGED notified

\* The field service answers the lookup of path p of the i-th waiting call.
LookupDone(i, p) ==
    /\ i \in 1..Len(calls)
    /\ p \in calls[i].pend
    /\ LET c == calls[i]
           r == IF Rejects(p) THEN [m |-> Catch(Machine), calls |-> <<>>, built |-> <<>>]
                ELSE Resume(Machine,
                            [c EXCEPT !.pend = @ \ {p},
                                      !.defs = (p.text :> LoadedDef(p)) @@ @])
       IN  /\ Commit(r.m,
                     SubSeq(calls, 1, i - 1) \o r.calls
                        \o SubSeq(calls, i + 1, Len(calls)),
                     updates)
           /\ ev' = [Ev("onPropsUpdated") EXCEPT !.done = (r.calls = <<>>),
                                                 !.value = c.value, !.built = r.built]
           /\ latest' = [latest EXCEPT !.completed = @ \/ r.calls = <<>>]
    /\ UNCHANGED <<notified, left>>

(***************************************************************************)
(* The node classes' methods.                                              *)
(***************************************************************************)
\* The position in kids of the first child with this id, 0 if there is none.
IndexOfId(h, kids, id) ==
    IF \E i \in 1..Len(kids) : h[kids[i]].id = id
    THEN CHOOSE i \in 1..Len(kids) :
            /\ h[kids[i]].id = id
            /\ \A j \in 1..(i - 1) : h[kids[j]].id # id
    ELSE 0

\* LeafDomainNode.clone(): [m, ref], a copy with an id of its own.
NodeClone(m, r) ==
    [m |-> [m EXCEPT !.heap = Append(@, [m.heap[r] EXCEPT !.id = m.nextId + 1]),
                     !.nextId = @ + 1],
     ref |-> Len(m.heap) + 1]

\* BranchDomainNode.add(node).
BranchAdd(h, parent, ref) ==
    [h EXCEPT ![parent].children = Append(@, ref)]

\* BranchDomainNode.insertAfter(id, node): nothing when no child has the id.
BranchInsertAfter(h, parent, id, ref) ==
    LET kids == h[parent].children
        i == IndexOfId(h, kids, id)
    IN  IF i = 0 THEN h
        ELSE [h EXCEPT ![parent].children =
                 SubSeq(kids, 1, i) \o <<ref>> \o SubSeq(kids, i + 1, Len(kids))]

\* BranchDomainNode.delete(id): the child is removed; a Branch left without
\* children is removed from its own parent in turn.
RECURSIVE BranchDelete(_, _, _)
BranchDelete(h, parent, id) ==
    LET kids == h[parent].children
        i == IndexOfId(h, kids, id)
        h1 == [h EXCEPT ![parent].children =
                  SubSeq(kids, 1, i - 1) \o SubSeq(kids, i + 1, Len(kids))]
        owners == {q \in 1..Len(h) :
                     \E j \in 1..Len(h[q].children) : h[q].children[j] = parent}
    IN  IF i = 0 THEN h
        ELSE IF h1[parent].children = <<>> /\ owners # {}
        THEN BranchDelete(h1, CHOOSE q \in owners : TRUE, h[parent].id)
        ELSE h1

(***************************************************************************)
(* The mutation handlers of the component, as functions of the state.      *)
(***************************************************************************)
\* notifyChanges serializing the first child of the root only.
notifyChangesFirstChild(m) ==
    [sent |-> TRUE,
     expr |-> IF m.heap[m.tree.root].children = <<>> THEN <<>>
              ELSE Ser(m.heap, m.heap[m.tree.root].children[1])]

\* notifyChanges(): what props.update receives.
notifyChanges(m) == [sent |-> TRUE, expr |-> Ser(m.heap, m.tree.root)]

\* createNewLeaf handing out the default leaf itself instead of a clone.
createNewLeafShared(m) == [m |-> m, ref |-> m.defaultLeaf]

\* createNewLeaf(): [m, ref].
createNewLeaf(m) == NodeClone(m, m.defaultLeaf)

\* createNewBranch(operator): [m, ref]; the two leaves are made first.
createNewBranch(m, operator) ==
    LET a == createNewLeaf(m)
        b == createNewLeaf(a.m)
    IN  [m |-> [b.m EXCEPT !.heap = Append(@, BranchNode(b.m.nextId + 1, operator,
                                                         <<a.ref, b.ref>>)),
                           !.nextId = @ + 1],
         ref |-> Len(b.m.heap) + 1]

insertRootLeaf(m, parent) ==
    LET c == createNewLeaf(m)
    IN  [c.m EXCEPT !.heap = BranchAdd(@, parent, c.ref)]

\* insertLeaf appending the new leaf, as insertRootLeaf does.
insertLeafAppends(m, parent, node) ==
    LET c == createNewLeaf(m)
    IN  [c.m EXCEPT !.heap = BranchAdd(@, parent, c.ref)]

insertLeaf(m, parent, node) ==
    LET c == createNewLeaf(m)
    IN  [c.m EXCEPT !.heap = BranchInsertAfter(@, parent, m.heap[node].id, c.ref)]

\* insertBranch with the branches of the conditional of line 147 swapped.
insertBranchSameOperator(m, parent, node) ==
    LET nextOperator == IF m.heap[parent].operator.key = "AND" THEN "AND" ELSE "OR"
        c == createNewBranch(m, nextOperator)
    IN  [c.m EXCEPT !.heap = BranchInsertAfter(@, parent, m.heap[node].id, c.ref)]

insertBranch(m, parent, node) ==
    LET nextOperator == IF m.heap[parent].operator.key = "AND" THEN "OR" ELSE "AND"
        c == createNewBranch(m, nextOperator)
    IN  [c.m EXCEPT !.heap = BranchInsertAfter(@, parent, m.heap[node].id, c.ref)]

\* delete filtering the parent's children itself instead of calling
\* parent.delete.
deleteInPlace(m, parent, node) ==
    [m EXCEPT !.heap[parent].children =
        SelectSeq(@, LAMBDA c : m.heap[c].id # m.heap[node].id)]

delete(m, parent, node) ==
    [m EXCEPT !.heap = BranchDelete(@, parent, m.heap[node].id)]

\* updateBranchOperator assigning the operator of the root.
updateBranchOperatorOfRoot(m, node, operator) ==
    [m EXCEPT !.heap[m.tree.root].operator = BranchOp(operator)]

updateBranchOperator(m, node, operator) ==
    [m EXCEPT !.heap[node].operator = BranchOp(operator)]

\* MigratedValue with the test for a previous valueMode "none" dropped from the
\* "multiple" case.
MigratedValueWrapsAlways(previousOperator, operator, field, value) ==
    IF previousOperator.valueMode # operator.valueMode
    THEN CASE operator.valueMode = "none" -> False
           [] operator.valueMode = "multiple" -> Wrap(value)
           [] OTHER ->
                IF previousOperator.valueMode = "none" THEN getDefaultFieldValue(field)
                ELSE Index0(value)
    ELSE value

\* The value updateLeafOperator leaves in the node (lines 173-192).
MigratedValue(previousOperator, operator, field, value) ==
    IF previousOperator.valueMode # operator.valueMode
    THEN CASE operator.valueMode = "none" -> False
           [] operator.valueMode = "multiple" ->
                IF previousOperator.valueMode = "none" THEN List(<<>>) ELSE Wrap(value)
           [] OTHER ->
                IF previousOperator.valueMode = "none" THEN getDefaultFieldValue(field)
                ELSE Index0(value)
    ELSE value

updateLeafOperator(m, node, operator) ==
    [m EXCEPT !.heap[node].operator = findOperator(operator),
              !.heap[node].value =
                  MigratedValue(m.heap[node].operator, findOperator(operator),
                                m.heap[node].field, m.heap[node].value)]

updateLeafValue(m, node, value) ==
    [m EXCEPT !.heap[node].value = value]

\* updateField without line 166: the previous value stays.
updateFieldKeepsValue(m, node, field) ==
    LET fieldDef == loadFieldDef(field)
    IN  IF fieldDef = NullDef
        THEN [m |-> [m EXCEPT !.heap[node].field = [name |-> field, type |-> "undefined"]],
              threw |-> TRUE]
        ELSE [m |-> [m EXCEPT !.heap[node].field = [name |-> field, type |-> fieldDef.type],
                              !.heap[node].operator =
                                  findOperator(OperatorsOfType(fieldDef.type)[1])],
              threw |-> FALSE]

\* updateField after its await, the lookup not rejected: [m, threw].  With a
\* null definition line 164 still assigns the field, then line 165 throws.
updateField(m, node, field) ==
    LET fieldDef == loadFieldDef(field)
    IN  IF fieldDef = NullDef
        THEN [m |-> [m EXCEPT !.heap[node].field = [name |-> field, type |-> "undefined"]],
              threw |-> TRUE]
        ELSE [m |-> [m EXCEPT !.heap[node].field = [name |-> field, type |-> fieldDef.type],
                              !.heap[node].operator =
                                  findOperator(OperatorsOfType(fieldDef.type)[1]),
                              !.heap[node].value = getDefaultFieldValue(fieldDef)],
              threw |-> FALSE]

\* getOperatorsInfo(node) without the membership test of line 211.
getOperatorsInfoAlwaysPushes(node) ==
    LET keys == OperatorsOfType(node.field.type)
    IN  Append([i \in 1..Len(keys) |-> findOperator(keys[i])], node.operator)

\* getOperatorsInfo(node): the operators the template offers for a leaf.
getOperatorsInfo(node) ==
    LET keys == OperatorsOfType(node.field.type)
        operators == [i \in 1..Len(keys) |-> findOperator(keys[i])]
    IN  IF ~\E i \in 1..Len(operators) : operators[i].key = node.operator.key
        THEN Append(operators, node.operator)
        ELSE operators

(***************************************************************************)
(* The handlers as steps.  The tree editor, and with it the handlers, is   *)
(* offered only while the expression is supported; a handler receives      *)
(* nodes of the rendered tree.                                             *)
(***************************************************************************)
Editable == tree.isSupported /\ left.edits > 0

TreeNodes == Reach(heap, tree.root)

TreeBranches == {r \in TreeNodes : heap[r].type = "branch"}

TreeLeaves == {r \in TreeNodes : heap[r].type = "leaf"}

\* The nodes a handler is called with beside `parent`: its children, as the
\* template does, and the parent itself, which is no child of it.
NodeArgs(parent) ==
    {heap[parent].children[i] : i \in 1..Len(heap[parent].children)} \cup {parent}

\* The values the value editor of an operator can produce.
EditorValues(operator) ==
    CASE operator.valueMode = "multiple" -> {List(<<>>), List(<<"10", "20">>)}
      [] operator.valueMode = "none" -> {}
      [] OTHER -> {Scalar("20")}

\* The step record of a handler called with these nodes (0: none).
Called(op, parent, node) ==
    [Ev(op) EXCEPT !.parent = parent, !.node = node,
                   !.old = IF node = 0 THEN Dropped(0) ELSE heap[node],
                   !.oldChildren = IF parent = 0 THEN <<>> ELSE heap[parent].children]

\* A synchronous handler has left state m and notified the owner.
Mutated(m, e) ==
    /\ Commit(m, calls, updates)
    /\ notified' = notifyChanges(m)
    /\ latest' = [latest EXCEPT !.touched = TRUE]
    /\ left' = [left EXCEPT !.edits = @ - 1]
    /\ ev' = [e EXCEPT !.notes = 1,
                       !.made = [k \in 1..(Len(m.heap) - Len(heap)) |-> Len(heap) + k]]

InsertRootLeaf ==
    /\ Editable
    /\ Mutated(insertRootLeaf(Machine, tree.root), Called("insertRootLeaf", tree.root, 0))

InsertLeaf(parent, node) ==
    /\ Editable
    /\ parent \in TreeBranches /\ node \in NodeArgs(parent)
    /\ Mutated(insertLeaf(Machine, parent, node), Called("insertLeaf", parent, node))

InsertBranch(parent, node) ==
    /\ Editable
    /\ parent \in TreeBranches /\ node \in NodeArgs(parent)
    /\ Mutated(insertBranch(Machine, parent, node), Called("insertBranch", parent, node))

Delete(parent, node) ==
    /\ Editable
    /\ parent \in TreeBranches /\ node \in NodeArgs(parent)
    /\ Mutated(delete(Machine, parent, node), Called("delete", parent, node))

\* The connective of a branch is offered where it connects something.
UpdateBranchOperator(node, operator) ==
    /\ Editable
    /\ node \in TreeBranches
    /\ Len(heap[node].children) >= 2
    /\ Mutated(updateBranchOperator(Machine, node, operator),
               [Called("updateBranchOperator", 0, node) EXCEPT !.key = operator])

UpdateLeafOperator(node, operator) ==
    /\ Editable
    /\ node \in TreeLeaves
    /\ Mutated(updateLeafOperator(Machine, node, operator),
               [Called("updateLeafOperator", 0, node) EXCEPT !.key = operator])

UpdateLeafValue(node, value) ==
    /\ Editable
    /\ node \in TreeLeaves
    /\ value \in EditorValues(heap[node].operator)
    /\ Mutated(updateLeafValue(Machine, node, value), Called("updateLeafValue", 0, node))

\* updateField from its await on: the lookup rejects (nothing is assigned),
\* or lines 164-167 run.
UpdateFieldEnd(node, field, us) ==
    LET r == IF Rejects(field) THEN [m |-> Machine, threw |-> TRUE]
             ELSE updateField(Machine, node, field)
    IN  /\ Commit(r.m, calls, us)
        /\ notified' = IF r.threw THEN notified ELSE notifyChanges(r.m)
        /\ latest' = [latest EXCEPT !.touched = TRUE]
        /\ ev' = [Called("updateField", 0, node) EXCEPT
                     !.path = field, !.threw = r.threw, !.now = r.m.heap[node],
                     !.notes = IF r.threw THEN 0 ELSE 1]

\* updateField(node, field) up to its await.
UpdateField(node, field) ==
    /\ Editable
    /\ node \in TreeLeaves
    /\ IF Immediate(field)
       THEN UpdateFieldEnd(node, field, updates) /\ left' = [left EXCEPT !.edits = @ - 1]
       ELSE /\ Len(updates) < MaxUpdates
            /\ Commit(Machine, calls, Append(updates, [node |-> node, field |-> field]))
            /\ ev' = [Called("updateField", 0, node) EXCEPT !.path = field, !.done = FALSE]
            /\ left' = [left EXCEPT !.edits = @ - 1]
            /\ UNCHANGED <<notified, latest>>

\* The field service answers the lookup of the i-th waiting updateField.
UpdateFieldDone(i) ==
    /\ i \in 1..Len(updates)
    /\ UpdateFieldEnd(updates[i].node, updates[i].field,
                      SubSeq(updates, 1, i - 1) \o SubSeq(updates, i + 1, Len(updates)))
    /\ UNCHANGED left

Next ==
    \/ \E v \in Exprs \cup {notified.expr} : OnPropsUpdated(v)
    \/ \E i \in 1..MaxCalls, p \in Paths : LookupDone(i, p)
    \/ InsertRootLeaf
    \/ \E parent \in TreeBranches : \E node \in NodeArgs(parent) : InsertLeaf(parent, node)
    \/ \E parent \in TreeBranches : \E node \in NodeArgs(parent) : InsertBranch(parent, node)
    \/ \E parent \in TreeBranches : \E node \in NodeArgs(parent) : Delete(parent, node)
    \/ \E node \in TreeBranches, operator \in {"AND", "OR"} :
          UpdateBranchOperator(node, operator)
    \/ \E node \in TreeLeaves, operator \in OpKeys : UpdateLeafOperator(node, operator)
    \/ \E node \in TreeLeaves : \E value \in EditorValues(heap[node].operator) :
          UpdateLeafValue(node, value)
    \/ \E node \in TreeLeaves, field \in {p \in Paths : p.isString} :
          UpdateField(node, field)
    \/ \E i \in 1..MaxUpdates : UpdateFieldDone(i)

Spec == Init /\ [][Next]_vars

(***************************************************************************)
(* Vocabulary of the properties.                                           *)
(***************************************************************************)
MutationOps ==
    {"insertRootLeaf", "insertLeaf", "insertBranch", "delete",
     "updateBranchOperator", "updateField", "updateLeafOperator", "updateLeafValue"}

\* The root is the empty branch the catch block installs.
EmptyRoot ==
    /\ tree.root # 0
    /\ heap[tree.root].type = "branch"
    /\ heap[tree.root].children = <<>>

\* What one onPropsUpdated(v), running alone, builds from v: [ok, heap, root].
Rebuilt(v) ==
    IF ParseOk(v) /\ \A i \in 1..Len(v) : ~Rejects(v[i].path)
    THEN Build(v, AllDefs(extractFieldsFromDomain(v)), <<>>, 0)
    ELSE [ok |-> FALSE, heap |-> <<>>, nextId |-> 0, root |-> 0]

\* The visible state is the one onPropsUpdated(v) arrives at when it runs alone.
ShowsResultOf(v) ==
    IF Rebuilt(v).ok
    THEN tree.isSupported /\ Shape(heap, tree.root) = Shape(Rebuilt(v).heap, Rebuilt(v).root)
    ELSE ~tree.isSupported /\ EmptyRoot

\* The value has the shape the operator's valueMode asks for.
ShapeMatches(operator, value) ==
    CASE operator.valueMode = "none" -> value = False
      [] operator.valueMode = "multiple" -> value.k = "list"
      [] OTHER -> value.k = "scalar" /\ value # Undefined

(***************************************************************************)
(* C1.  updateLeafOperator migrates the value by the value-shape table     *)
(* whenever the valueMode changes: none->multiple gives [], none->single   *)
(* the field's type default, single->none and multiple->none give false,   *)
(* single->multiple gives [oldValue], multiple->single with a non-empty    *)
(* old list gives its first element; with equal valueModes the value is    *)
(* left unchanged.                                                         *)
(***************************************************************************)
C1_ValueMigration ==
    ev.op = "updateLeafOperator" =>
        LET old == ev.old.value
            new == heap[ev.node].value
            from == ev.old.operator.valueMode
            to == findOperator(ev.key).valueMode
        IN  /\ heap[ev.node].operator.key = ev.key
            /\ from = to => new = old
            /\ (from = "none" /\ to = "multiple") => new = List(<<>>)
            /\ (from = "none" /\ to = "single") => new = getDefaultFieldValue(ev.old.field)
            /\ (from # "none" /\ to = "none") => new = False
            /\ (from = "single" /\ to = "multiple") => new = List(<<old.s[1]>>)
            /\ (from = "multiple" /\ to = "single" /\ old.k = "list" /\ old.s # <<>>)
                  => new = Scalar(old.s[1])

\* A leaf with a non-empty list has just been switched to a single-value operator.
C1_Witness ==
    /\ ev.op = "updateLeafOperator"
    /\ ev.old.operator.valueMode = "multiple"
    /\ findOperator(ev.key).valueMode = "single"
    /\ ev.old.value.k = "list" /\ ev.old.value.s # <<>>

(***************************************************************************)
(* C2.  When updateLeafOperator changes a leaf from a valueMode 'multiple' *)
(* operator to a single-value operator and the old value is the empty      *)
(* list, the resulting value is the field's type default.                  *)
(***************************************************************************)
C2_EmptyListGivesDefault ==
    ( /\ ev.op = "updateLeafOperator"
      /\ ev.old.operator.valueMode = "multiple"
      /\ findOperator(ev.key).valueMode = "single"
      /\ ev.old.value = List(<<>>) )
    => heap[ev.node].value = getDefaultFieldValue(ev.old.field)

(***************************************************************************)
(* C3.  Value-cardinality invariant: every leaf of the tree has a value of *)
(* the shape its operator's valueMode asks for (none: false, multiple: a   *)
(* list, otherwise a scalar), after any sequence of updateField,           *)
(* updateLeafOperator and shape-respecting updateLeafValue calls.          *)
(***************************************************************************)
C3_ValueCardinality ==
    \A r \in TreeLeaves : ShapeMatches(heap[r].operator, heap[r].value)

(***************************************************************************)
(* C4.  Every call of onPropsUpdated ends without an error propagating, in *)
(* one of two outcomes: isSupported = true and root the tree built from    *)
(* the given value, or isSupported = false and root the empty branch; a    *)
(* value that does not parse, that names an unresolved field or whose      *)
(* lookup fails ends in the second.                                        *)
(***************************************************************************)
C4_TwoOutcomes ==
    (ev.op = "onPropsUpdated" /\ ev.done) =>
        /\ ~ev.threw
        /\ ShowsResultOf(ev.value)

(***************************************************************************)
(* C5.  Last write wins across overlapping rebuilds: once every call of    *)
(* onPropsUpdated has completed, the visible state (root, isSupported) is  *)
(* the one derived from the props of the call made last.                   *)
(***************************************************************************)
C5_LastPropsWin ==
    ( /\ ev.op = "onPropsUpdated"
      /\ calls = <<>>
      /\ latest.any /\ ~latest.touched )
    => ShowsResultOf(latest.value)

(***************************************************************************)
(* C6.  Every mutation operation notifies the owner exactly once, after    *)
(* the mutation, with the serialization of the current root; none          *)
(* completes without a notification and none fails.                        *)
(***************************************************************************)
C6_NotifiesOnce ==
    (ev.op \in MutationOps /\ ev.done) =>
        /\ ~ev.threw
        /\ ev.notes = 1
        /\ notified = [sent |-> TRUE, expr |-> Ser(heap, tree.root)]

\* The position of x in seq, 0 if it is not in it.
PosOf(seq, x) ==
    IF \E i \in 1..Len(seq) : seq[i] = x
    THEN CHOOSE i \in 1..Len(seq) : seq[i] = x
    ELSE 0

\* The leaves the last handler put into the tree: the new children of its
\* parent and the children of a new branch.
Inserted ==
    LET new == {heap[ev.parent].children[i] : i \in 1..Len(heap[ev.parent].children)}
                  \ {ev.oldChildren[i] : i \in 1..Len(ev.oldChildren)}
    IN  {r \in new : heap[r].type = "leaf"}
          \cup UNION {{heap[b].children[i] : i \in 1..Len(heap[b].children)} :
                         b \in {r \in new : heap[r].type = "branch"}}

(***************************************************************************)
(* C7.  Insert then delete restores the tree: insertLeaf(parent, A) with A *)
(* a direct child places a new leaf immediately after A and leaves the     *)
(* other children and their order unchanged, and delete(parent, newLeaf)   *)
(* then yields the children sequence from before the insert; when A is no  *)
(* direct child, insertLeaf leaves the children unchanged.                 *)
(***************************************************************************)
C7_InsertThenDelete ==
    ev.op = "insertLeaf" =>
        LET before == ev.oldChildren
            after == heap[ev.parent].children
            i == PosOf(before, ev.node)
        IN  IF i = 0 THEN after = before
            ELSE /\ Len(ev.made) = 1
                 /\ heap[ev.made[1]].type = "leaf"
                 /\ after = SubSeq(before, 1, i) \o ev.made
                               \o SubSeq(before, i + 1, Len(before))
                 /\ delete(Machine, ev.parent, ev.made[1]).heap[ev.parent].children
                        = before

\* A leaf has just been inserted after a child that is not the last one.
C7_Witness ==
    /\ ev.op = "insertLeaf"
    /\ PosOf(ev.oldChildren, ev.node) \in 1..(Len(ev.oldChildren) - 1)

(***************************************************************************)
(* C8.  Node identifiers are unique and never reused: the ids of all node  *)
(* objects ever made, dropped ones included, are pairwise distinct, and    *)
(* every leaf an insert handler puts into the tree has the default leaf's  *)
(* field, operator and value and an id different from the default leaf's.  *)
(***************************************************************************)
C8_UniqueIds ==
    /\ \A i, j \in 1..Len(heap) : i # j => heap[i].id # heap[j].id
    /\ ev.op \in {"insertRootLeaf", "insertLeaf", "insertBranch"} =>
          \A r \in Inserted :
              /\ heap[r].id # heap[defaultLeaf].id
              /\ heap[r].field = heap[defaultLeaf].field
              /\ heap[r].operator = heap[defaultLeaf].operator
              /\ heap[r].value = heap[defaultLeaf].value

\* A leaf has just been inserted while a node made earlier is gone.
C8_Witness ==
    /\ ev.op \in {"insertRootLeaf", "insertLeaf", "insertBranch"}
    /\ Inserted # {}
    /\ \E i \in 1..Len(heap) : heap[i].type = "dropped"

(***************************************************************************)
(* C9.  No non-root Branch of the tree has an empty children list: a       *)
(* delete that would empty a Branch removes that Branch from its parent.   *)
(***************************************************************************)
C9_NoEmptyBranch ==
    \A r \in TreeBranches : r # tree.root => heap[r].children # <<>>

\* The last child of a non-root branch has just been deleted, and the branch
\* is no longer in the tree.
C9_Witness ==
    /\ ev.op = "delete"
    /\ ev.oldChildren = <<ev.node>>
    /\ ev.parent # tree.root
    /\ ev.parent \notin TreeNodes

\* Every branch below r has exactly two children.
RECURSIVE Binary(_, _)
Binary(h, r) ==
    \/ h[r].type = "leaf"
    \/ /\ Len(h[r].children) = 2
       /\ \A i \in 1..2 : Binary(h, h[r].children[i])

\* The root has the form the tree builder gives a root.
BuiltForm(h, r) ==
    \/ Binary(h, r)
    \/ /\ h[r].operator.key = "AND"
       /\ Len(h[r].children) <= 1
       /\ \A i \in 1..Len(h[r].children) : h[h[r].children[i]].type = "leaf"

\* Every field path of the expression resolves.
AllResolve(v) ==
    \A i \in 1..Len(v) :
        v[i].t = "leaf" =>
            /\ v[i].path.isString \/ v[i].path.text \in {"0", "1"}
            /\ ~Rejects(v[i].path)
            /\ loadFieldDef(v[i].path) # NullDef

(***************************************************************************)
(* C10 as claimed.  Round trip through the owner: the expression emitted   *)
(* by notifyChanges after a mutation, fed back as props.value, is rebuilt  *)
(* with isSupported = true into a root structurally equal to the mutated   *)
(* tree (node count, branch operators, leaf field paths, operator keys and *)
(* values).                                                                *)
(***************************************************************************)
C10_RoundTrip ==
    (ev.op \in MutationOps /\ ev.notes = 1) =>
        /\ Rebuilt(notified.expr).ok
        /\ Shape(Rebuilt(notified.expr).heap, Rebuilt(notified.expr).root)
              = Shape(heap, tree.root)

(***************************************************************************)
(* C10 as amended.  When every field path of the emitted expression        *)
(* resolves, the rebuild succeeds and its root has the leaves of the       *)
(* mutated tree in the same order (field paths, operator keys, values) and *)
(* serializes to the emitted expression again; it is structurally equal to *)
(* the mutated tree when that tree has the form a build produces (every    *)
(* branch with exactly two children, or an AND root over at most one       *)
(* leaf).  When a field path of the emitted expression does not resolve    *)
(* (a failed updateField leaves one in the tree), the rebuild ends in the  *)
(* unsupported state.                                                      *)
(***************************************************************************)
C10_RoundTripOfLeaves ==
    (ev.op \in MutationOps /\ ev.notes = 1) =>
        LET b == Rebuilt(notified.expr)
        IN  IF AllResolve(notified.expr)
            THEN /\ b.ok
                 /\ Leaves(b.heap, b.root) = Leaves(heap, tree.root)
                 /\ Ser(b.heap, b.root) = notified.expr
                 /\ BuiltForm(heap, tree.root)
                       => Shape(b.heap, b.root) = Shape(heap, tree.root)
            ELSE ~b.ok

\* A mutation has left a tree that is not in built form, and its expression
\* has been emitted and is rebuilt.
C10_Witness ==
    /\ ev.op \in MutationOps /\ ev.notes = 1
    /\ AllResolve(notified.expr)
    /\ ~BuiltForm(heap, tree.root)
    /\ Len(Leaves(heap, tree.root)) >= 2
    /\ Rebuilt(notified.expr).ok

(***************************************************************************)
(* C11 as claimed.  The mapping handed to the build of the expression has  *)
(* an entry, the definition or null, for the field path of every leaf of   *)
(* the expression, whatever the order in which the lookups completed, and  *)
(* the build runs only when all of them have.                              *)
(***************************************************************************)
C11_EntryForEveryLeaf ==
    (ev.op = "onPropsUpdated" /\ ev.built # <<>>) =>
        \A i \in 1..Len(ev.value) :
            ev.value[i].t = "leaf" =>
                /\ ev.value[i].path.text \in DOMAIN ev.built[1]
                /\ ev.built[1][ev.value[i].path.text] = loadFieldDef(ev.value[i].path)

\* The first elements of the triples of v that are strings or the number 0 or 1.
LookedUpPaths(v) ==
    {v[i].path : i \in {j \in 1..Len(v) :
                          /\ v[j].t = "leaf"
                          /\ v[j].path.isString \/ v[j].path.text \in {"0", "1"}}}

(***************************************************************************)
(* C11 as amended.  The mapping handed to the build of the expression has  *)
(* an entry, the definition or null, for every first element of a triple   *)
(* that is a string or the number 0 or 1, and no other entry (a triple on  *)
(* any other first element gets none), whatever the order in which the     *)
(* lookups completed, and the build runs only when all of them have.       *)
(***************************************************************************)
C11_EntryForEveryPath ==
    (ev.op = "onPropsUpdated" /\ ev.built # <<>>) =>
        /\ DOMAIN ev.built[1] = {p.text : p \in LookedUpPaths(ev.value)}
        /\ \A p \in LookedUpPaths(ev.value) : ev.built[1][p.text] = loadFieldDef(p)

\* A build has been handed the mapping of an expression with two fields
\* whose lookups the field service answered.
C11_Witness ==
    /\ ev.op = "onPropsUpdated" /\ ev.built # <<>>
    /\ {"id", "name"} \subseteq DOMAIN ev.built[1]

\* What C12 says of loadFieldDef(path): the definition, and whether the
\* field service is asked.
Documented(path) ==
    IF path.text \in {"0", "1"} THEN [def |-> Def("integer"), service |-> FALSE]
    ELSE IF ~path.isString \/ path.text = "" THEN [def |-> NullDef, service |-> FALSE]
    ELSE [def |-> IF LoadPath(path.text).status = "invalid" THEN NullDef
                  ELSE Def(LoadPath(path.text).type),
          service |-> TRUE]

(***************************************************************************)
(* C12.  loadFieldDef gives {type: "integer"} for the shorthands 1 and 0   *)
(* and null for every other path that is empty or not a string, both       *)
(* without the field service; for a non-empty string it asks the service   *)
(* and gives null for an invalid path, else the definition of the path:    *)
(* so are the entries of the mapping a build is handed, the lookups a      *)
(* call waits for, and the field updateField assigns.                      *)
(***************************************************************************)
C12_LoadFieldDef ==
    /\ (ev.op = "onPropsUpdated" /\ ev.built # <<>>) =>
           \A p \in LookedUpPaths(ev.value) :
               ev.built[1][p.text] = Documented(p).def
    /\ \A i \in 1..Len(calls) : \A p \in calls[i].pend : Documented(p).service
    /\ \A i \in 1..Len(updates) : Documented(updates[i].field).service
    /\ (ev.op = "updateField" /\ ev.done /\ ~Rejects(ev.path)) =>
           IF Documented(ev.path).def = NullDef THEN ev.threw
           ELSE /\ ~ev.threw
                /\ ev.node \in TreeNodes
                      => heap[ev.node].field.type = Documented(ev.path).def.type

(***************************************************************************)
(* C13.  updateField with a field path that resolves leaves the leaf with  *)
(* the resolved definition under the new path as name, the first operator  *)
(* registered for the new field's type and the default value of the new    *)
(* field, whatever operator and value the leaf had, and notifies.          *)
(***************************************************************************)
C13_UpdateFieldResets ==
    (/\ ev.op = "updateField" /\ ev.done
     /\ ~Rejects(ev.path) /\ loadFieldDef(ev.path) # NullDef) =>
        LET type == IF ev.path.text = "name" THEN "char" ELSE "integer"
        IN  /\ ~ev.threw
            /\ ev.now.field = [name |-> ev.path, type |-> type]
            /\ ev.now.operator = findOperator(OperatorsOfType(type)[1])
            /\ ev.now.value = getDefaultFieldValue(Def(type))
            /\ ev.now.id = ev.old.id

\* updateField has resolved the new field of a leaf that had another
\* operator and another value than the new field's defaults.
C13_Witness ==
    /\ ev.op = "updateField" /\ ev.done /\ ~ev.threw
    /\ ev.old.operator.key = "in"
    /\ ev.old.value # ev.now.value
    /\ ev.now.operator.key = "="

(***************************************************************************)
(* C14.  For every leaf of the tree, getOperatorsInfo(node) is the list of *)
(* the operators registered for the type of the leaf's field, in registry  *)
(* order, followed by the leaf's operator when its key is not registered   *)
(* for that type: the leaf's operator is in the list exactly once.         *)
(***************************************************************************)
C14_OperatorsOffered ==
    \A n \in TreeLeaves :
        LET offered == getOperatorsInfo(heap[n])
            keys == OperatorsOfType(heap[n].field.type)
            known == \E i \in 1..Len(keys) : keys[i] = heap[n].operator.key
        IN  /\ Len(offered) = Len(keys) + (IF known THEN 0 ELSE 1)
            /\ \A i \in 1..Len(keys) : offered[i].key = keys[i]
            /\ ~known => offered[Len(offered)] = heap[n].operator
            /\ Cardinality({i \in 1..Len(offered) :
                               offered[i].key = heap[n].operator.key}) = 1

\* The tree holds a leaf whose operator is not registered for its field's
\* type and a leaf whose operator is.
C14_Witness ==
    /\ tree.isSupported
    /\ \E n \in TreeLeaves :
          /\ heap[n].field.type = "char" /\ heap[n].operator.key = "in"
          /\ Len(getOperatorsInfo(heap[n])) = Len(OperatorsOfType("char")) + 1
    /\ \E n \in TreeLeaves :
          /\ heap[n].operator.key = "set"
          /\ Len(getOperatorsInfo(heap[n])) = Len(OperatorsOfType(heap[n].field.type))

(***************************************************************************)
(* C15.  insertBranch(parent, node), node a child of parent, puts right    *)
(* after node one new Branch, the other children kept in their order; its  *)
(* operator is the connective opposite to the parent's (OR under AND, AND  *)
(* otherwise), and its children are exactly two new leaves, different      *)
(* objects with different new ids, each with the default leaf's field,     *)
(* operator and value.                                                     *)
(***************************************************************************)
C15_InsertBranch ==
    (ev.op = "insertBranch" /\ PosOf(ev.oldChildren, ev.node) # 0) =>
        LET before == ev.oldChildren
            after == heap[ev.parent].children
            i == PosOf(before, ev.node)
            b == after[i + 1]
        IN  /\ Len(after) = Len(before) + 1
            /\ after = SubSeq(before, 1, i) \o <<b>> \o SubSeq(before, i + 1, Len(before))
            /\ Len(ev.made) = 3 /\ b = ev.made[3]
            /\ heap[b].type = "branch"
            /\ heap[b].operator.key # heap[ev.parent].operator.key
            /\ heap[b].operator.key
                  = (IF heap[ev.parent].operator.key = "AND" THEN "OR" ELSE "AND")
            /\ heap[b].children = <<ev.made[1], ev.made[2]>>
            /\ \A k \in 1..2 :
                  /\ heap[ev.made[k]].type = "leaf"
                  /\ heap[ev.made[k]].id \notin {heap[defaultLeaf].id, heap[b].id}
                  /\ heap[ev.made[k]].field = heap[defaultLeaf].field
                  /\ heap[ev.made[k]].operator = heap[defaultLeaf].operator
                  /\ heap[ev.made[k]].value = heap[defaultLeaf].value
            /\ heap[ev.made[1]].id # heap[ev.made[2]].id

\* A branch has been inserted under an OR branch, after a child that is
\* not the last one.
C15_Witness ==
    /\ ev.op = "insertBranch"
    /\ PosOf(ev.oldChildren, ev.node) \in 1..(Len(ev.oldChildren) - 1)
    /\ heap[ev.parent].operator.key = "OR"

(***************************************************************************)
(* C16.  Frame of the simple updates.  A step of updateLeafValue changes   *)
(* the value of the addressed leaf and nothing else of it, a step of       *)
(* updateBranchOperator the operator of the addressed branch and nothing   *)
(* else of it; in both every other node object, the number of node         *)
(* objects, the id counter, root, isSupported, the default leaf and the    *)
(* waiting calls stay as they were.                                        *)
(***************************************************************************)
C16_Frame ==
    [][ev'.op \in {"updateLeafValue", "updateBranchOperator"} =>
          /\ tree' = tree /\ defaultLeaf' = defaultLeaf /\ nextId' = nextId
          /\ calls' = calls /\ updates' = updates
          /\ Len(heap') = Len(heap)
          /\ \A r \in 1..Len(heap) : r # ev'.node => heap'[r] = heap[r]
          /\ ev'.node \in Reach(heap, tree.root)
          /\ IF ev'.op = "updateLeafValue"
             THEN /\ heap[ev'.node].type = "leaf"
                  /\ heap'[ev'.node] = [heap[ev'.node] EXCEPT !.value = heap'[ev'.node].value]
             ELSE /\ heap[ev'.node].type = "branch"
                  /\ heap'[ev'.node] = [heap[ev'.node] EXCEPT !.operator = BranchOp(ev'.key)]
       ]_vars

\* updateBranchOperator has changed the connective of a branch below the
\* root, in a tree where updateLeafValue has changed a value before.
C16_Witness ==
    /\ ev.op = "updateBranchOperator"
    /\ ev.node # tree.root
    /\ ev.old.operator.key # heap[ev.node].operator.key
    /\ \E n \in TreeLeaves : heap[n].value \in {Scalar("20"), List(<<"10", "20">>)}

(***************************************************************************)
(* C17.  Once a call of onPropsUpdated has completed, in every state       *)
(* between steps isSupported = false implies that root is the empty        *)
(* branch, also while a later call is waiting for its lookups.             *)
(***************************************************************************)
C17_UnsupportedIsEmpty ==
    (latest.completed /\ ~tree.isSupported) => EmptyRoot

(***************************************************************************)
(* C18.  updateField is atomic with respect to an unresolved field: when   *)
(* the lookup of the new path gives null or fails, the leaf keeps the      *)
(* field, the operator and the value it had.                               *)
(***************************************************************************)
C18_UpdateFieldAtomic ==
    (/\ ev.op = "updateField" /\ ev.done
     /\ Rejects(ev.path) \/ loadFieldDef(ev.path) = NullDef) =>
        /\ ev.now.field = ev.old.field
        /\ ev.now.operator = ev.old.operator
        /\ ev.now.value = ev.old.value

(***************************************************************************)
(* C19.  A notification of updateField carries an expression in which the  *)
(* edited leaf has the new field: the leaf updateField has assigned is a   *)
(* node of the root that was serialized, and its triple, with the new      *)
(* field path, is in the expression handed to the owner, also when         *)
(* onPropsUpdated has replaced the root while updateField was waiting.     *)
(***************************************************************************)
C19_EditReachesOwner ==
    (ev.op = "updateField" /\ ev.done /\ ev.notes = 1) =>
        /\ ev.node \in TreeNodes
        /\ \E i \in 1..Len(notified.expr) :
              notified.expr[i] = LeafTok(ev.path, ev.now.operator.key, ev.now.value)

====
